---- MODULE Spec2Model ----
(***************************************************************************)
(* Session Manager of the chat front end (stores/session-store.ts) with    *)
(* the ChatInput effect that drives the Stream Mode channel, the Durable   *)
(* Store it persists to and the two transports it talks to.                *)
(*                                                                         *)
(* Execution is one JavaScript event loop: every action below is one task  *)
(* (a command up to its first await, the continuation after an await, or   *)
(* one event handler).  Store requests are served in the order they were   *)
(* issued.  The store subscription of ChatInput re-renders synchronously,  *)
(* so its effect on [connectionMode, currentSession?.id] runs in the task  *)
(* that changed one of the two.                                            *)
(***************************************************************************)
EXTENDS Integers, Sequences, FiniteSets, TLC

\* ---------------------------------------------------------------- bounds
\* Spec: from the state after construction.
MaxOps == 4            \* commands the user issues in one run
MaxEvents == 2         \* inbound frames and failures in one run
\* SpecChat and SpecSend: from a chat in progress.
ChatOps == 2

MaxSessions == MaxOps + ChatOps + 2             \* every session costs a command
MaxMsgs == 2 * (MaxOps + ChatOps) + MaxEvents
                                    \* a send makes two messages, a frame one
MaxChans == MaxOps + ChatOps + 2                \* every channel costs a command

SessionIds == 1..MaxSessions
ChanIds == 1..MaxChans
Agents == {"a1", "a2"}
Catalogs == {<<"a2", "a1">>, <<>>}   \* what api.listAgents may return
Contents == {<<"u">>}          \* what the user types
Fragments == {<<"f">>}         \* streamed text fragments
Replies == {<<"r">>}           \* Request Mode reply texts
ReplyAgents == {"a2"}          \* agent named in a Request Mode reply
Details == {<<"d">>, <<>>}     \* error.detail; <<>> when absent
ErrorPrefix == <<"E">>         \* the text "Error: "
FallbackText == <<"F">>        \* the text "Failed to send message"
NoAgent == ""
Tokens == {"t1", "t2"}         \* access tokens the server issues
NoToken == ""
Users == {"u1"}                \* what api.getMe returns
NoUser == ""
NoError == ""
LoginFailedText == "Login failed"
AuthDetails == {"d", ""}       \* error.detail of a failed login; "" when absent

\* ---------------------------------------------------------------- state
VARIABLES
    sessions,        \* in-memory session list
    currentSession,  \* selected session, NoSession for null
    agents,          \* agent catalog, a sequence of agent names
    selectedAgent,
    isLoading,
    isSending,
    connectionMode,  \* "rest" | "websocket"
    wsConnection,    \* channel handle: a channel id, 0 for null
    channels,        \* channel id -> [sid, state] of the WebSocket objects
    db,              \* Durable Store: session id -> record, NoSession if none
    dbQueue,         \* store requests issued and not yet served
    calls,           \* Request Mode calls in flight
    listing,         \* api.listAgents calls in flight
    nextSid,         \* generateId for sessions
    nextMid,         \* generateId for messages
    origin,          \* message id -> id of the session selected when appended
    dispatch,        \* message id -> transport the user message went to
    ops,             \* commands the user may still issue
    events,          \* inbound frames and failures that may still occur
    idle,            \* the last operation that found nothing to do
    lastSelect,      \* the selectSession call issued last
    user,            \* auth store: the signed-in user, NoUser for null
    token,           \* auth store: the access token, NoToken for null
    isAuthenticated,
    authIsLoading,   \* auth store: isLoading
    error,           \* auth store: the error text, NoError for null
    accessToken,     \* localStorage item 'access_token', NoToken if absent
    authCalls,       \* auth requests in flight
    loggedOut,       \* logout has completed and no later login got a token
    now              \* the clock, as new Date() reads it

storeVars == <<sessions, currentSession, selectedAgent, isLoading, isSending,
               connectionMode, wsConnection>>
vars == <<sessions, currentSession, agents, selectedAgent, isLoading, isSending,
          connectionMode, wsConnection, channels, db, dbQueue, calls, listing,
          nextSid, nextMid, origin, dispatch, ops, events, idle, lastSelect,
          user, token, isAuthenticated, authIsLoading, error, accessToken,
          authCalls, loggedOut, now>>

authVars == <<user, token, isAuthenticated, authIsLoading, error, accessToken,
              authCalls, loggedOut>>

\* Everything of the session store and its transports.
sessionVars == <<storeVars, agents, channels, db, dbQueue, calls, listing,
                 nextSid, nextMid, origin, dispatch, idle, lastSelect, now>>

NoSelect == [id |-> 0, overlapped |-> FALSE]

\* The auth store as created: the token is read from localStorage.
AuthStart(stored) ==
    /\ user = NoUser
    /\ token = stored
    /\ isAuthenticated = FALSE
    /\ authIsLoading = TRUE
    /\ error = NoError
    /\ accessToken = stored
    /\ authCalls = {}
    /\ loggedOut = FALSE

NoSession ==
    [id |-> 0, agent |-> NoAgent, messages |-> <<>>, createdAt |-> 0,
     updatedAt |-> 0]

\* A message created now: timestamp: new Date().
Message(id, role, content, agent) ==
    [id |-> id, role |-> role, content |-> content, agent |-> agent,
     timestamp |-> now]

\* A session created now: createdAt: new Date(), updatedAt: new Date().
NewSession(id, agent) ==
    [id |-> id, agent |-> agent, messages |-> <<>>, createdAt |-> now,
     updatedAt |-> now]

\* ---------------------------------------------------------------- store
\* getAllSessions(): every stored record, in key order.
RECURSIVE ListFrom(_, _)
ListFrom(store, i) ==
    IF i > MaxSessions THEN <<>>
    ELSE IF store[i] = NoSession THEN ListFrom(store, i + 1)
    ELSE <<store[i]>> \o ListFrom(store, i + 1)

getAllSessions(store) == ListFrom(store, 1)

\* saveSession(rec): whole-record write under rec.id.
saveSession(store, rec) == [store EXCEPT ![rec.id] = rec]

\* deleteSession(id)
deleteSession(store, id) == [store EXCEPT ![id] = NoSession]

\* getSession(id): the record, or NoSession (undefined) when there is none.
getSession(store, id) == store[id]

Request(op, id, rec, k) == [op |-> op, id |-> id, rec |-> rec, k |-> k]

\* ---------------------------------------------------------------- channel
\* WebSocket.close(): OPEN becomes CLOSING; CONNECTING fails the connection
\* (CLOSING, with an error event before the close event); otherwise nothing.
CloseChannel(ch, c) ==
    CASE ch[c].state = "open" -> [ch EXCEPT ![c].state = "closing"]
      [] ch[c].state = "connecting" -> [ch EXCEPT ![c].state = "aborting"]
      [] OTHER -> ch

FreeChans(ch) == {c \in ChanIds : ch[c].state = "closed"}
FreshChan(ch) == CHOOSE c \in FreeChans(ch) : \A d \in FreeChans(ch) : c <= d

\* disconnectWebSocket that closes every channel, known by the handle or not.
disconnectWebSocketAll(h, ch) ==
    [h |-> 0,
     ch |-> [c \in ChanIds |->
               CASE ch[c].state = "open" -> [ch[c] EXCEPT !.state = "closing"]
                 [] ch[c].state = "connecting" ->
                       [ch[c] EXCEPT !.state = "aborting"]
                 [] OTHER -> ch[c]]]

\* disconnectWebSocket, on handle h and channels ch.
disconnectWebSocket(h, ch) ==
    IF h # 0
    THEN [h |-> 0, ch |-> CloseChannel(ch, h)]
    ELSE [h |-> h, ch |-> ch]

\* connectWebSocket, with cur the current session.
connectWebSocket(cur, h, ch) ==
    LET ch1 == IF h # 0 THEN CloseChannel(ch, h) ELSE ch
    IN  IF cur = NoSession
        THEN [h |-> h, ch |-> ch1]
        ELSE [h |-> FreshChan(ch1),
              ch |-> [ch1 EXCEPT ![FreshChan(ch1)] =
                         [sid |-> cur.id, state |-> "connecting"]]]

\* The effect of ChatInput: cleanup of the previous run (with the mode it
\* closed over), then the body, when a dependency changed.
ChatInputEffect(mode0, cur0, mode1, cur1, h, ch) ==
    IF mode0 = mode1 /\ cur0.id = cur1.id
    THEN [h |-> h, ch |-> ch]
    ELSE LET a == IF mode0 = "websocket"
                  THEN disconnectWebSocket(h, ch)
                  ELSE [h |-> h, ch |-> ch]
         IN  IF mode1 = "websocket" /\ cur1 # NoSession
             THEN connectWebSocket(cur1, a.h, a.ch)
             ELSE disconnectWebSocket(a.h, a.ch)

\* ---------------------------------------------------------------- init
Init ==
    /\ now = 1
    /\ sessions = <<>>
    /\ currentSession = NoSession
    /\ agents = <<>>
    /\ selectedAgent = NoAgent
    /\ isLoading = FALSE
    /\ isSending = FALSE
    /\ connectionMode = "rest"
    /\ wsConnection = 0
    /\ channels = [c \in ChanIds |-> [sid |-> 0, state |-> "closed"]]
    /\ db = [i \in SessionIds |-> NoSession]
    /\ dbQueue = <<>>
    /\ calls = {}
    /\ listing = 0
    /\ nextSid = 1
    /\ nextMid = 1
    /\ origin = [m \in 1..MaxMsgs |-> 0]
    /\ dispatch = [m \in 1..MaxMsgs |-> "none"]
    /\ ops = MaxOps
    /\ events = MaxEvents
    /\ idle = "none"
    /\ lastSelect = NoSelect
    /\ AuthStart(NoToken)

\* ---------------------------------------------------------------- helpers
Last(s) == s[Len(s)]

ReplaceById(list, updated) ==
    [i \in DOMAIN list |-> IF list[i].id = updated.id THEN updated ELSE list[i]]

Enqueue(r) == dbQueue' = Append(dbQueue, r)

Command == ops > 0 /\ ops' = ops - 1

\* The effect of ChatInput after a task moved the store from
\* (connectionMode, currentSession) to (mode1, cur1).
RunEffect(mode1, cur1) ==
    LET e == ChatInputEffect(connectionMode, currentSession, mode1, cur1,
                             wsConnection, channels)
    IN  wsConnection' = e.h /\ channels' = e.ch

\* addMessage that extends the first listed session instead of the current one.
addMessageToFirst(m) ==
    IF currentSession = NoSession
    THEN UNCHANGED <<currentSession, sessions, dbQueue, origin, nextMid, now>>
    ELSE LET updated == [sessions[1] EXCEPT !.messages = Append(@, m),
                                          !.updatedAt = now]
         IN  /\ currentSession' = updated
             /\ sessions' = ReplaceById(sessions, updated)
             /\ Enqueue(Request("put", updated.id, updated, "none"))
             /\ now' = now + 1
             /\ origin' = [origin EXCEPT ![m.id] = currentSession.id]
             /\ nextMid' = nextMid + 1

\* addMessage that binds the session to the agent selected at the time.
addMessageRebind(m) ==
    IF currentSession = NoSession
    THEN UNCHANGED <<currentSession, sessions, dbQueue, origin, nextMid, now>>
    ELSE LET updated == [currentSession EXCEPT !.messages = Append(@, m),
                                               !.agent = selectedAgent,
                                               !.updatedAt = now]
         IN  /\ currentSession' = updated
             /\ sessions' = ReplaceById(sessions, updated)
             /\ Enqueue(Request("put", updated.id, updated, "none"))
             /\ now' = now + 1
             /\ origin' = [origin EXCEPT ![m.id] = currentSession.id]
             /\ nextMid' = nextMid + 1

\* addMessage(message): sets currentSession, sessions, dbQueue, origin,
\* nextMid, now.
addMessage(m) ==
    IF currentSession = NoSession
    THEN UNCHANGED <<currentSession, sessions, dbQueue, origin, nextMid, now>>
    ELSE LET updated == [currentSession EXCEPT !.messages = Append(@, m),
                                               !.updatedAt = now]
         IN  /\ currentSession' = updated
             /\ sessions' = ReplaceById(sessions, updated)
             /\ Enqueue(Request("put", updated.id, updated, "none"))
             /\ now' = now + 1
             /\ origin' = [origin EXCEPT ![m.id] = currentSession.id]
             /\ nextMid' = nextMid + 1

\* updateLastMessage that replaces the content instead of extending it.
updateLastMessageReplace(content) ==
    IF currentSession = NoSession \/ currentSession.messages = <<>>
    THEN UNCHANGED <<currentSession, sessions, dbQueue, now>>
    ELSE LET n == Len(currentSession.messages)
             updated == [currentSession EXCEPT !.messages[n].content = content,
                                               !.updatedAt = now]
         IN  /\ currentSession' = updated
             /\ sessions' = ReplaceById(sessions, updated)
             /\ Enqueue(Request("put", updated.id, updated, "none"))
             /\ now' = now + 1

\* updateLastMessage that also stamps the message it extends.
updateLastMessageRestamp(content) ==
    IF currentSession = NoSession \/ currentSession.messages = <<>>
    THEN UNCHANGED <<currentSession, sessions, dbQueue, now>>
    ELSE LET n == Len(currentSession.messages)
             updated == [currentSession EXCEPT
                            !.messages[n].content = @ \o content,
                            !.messages[n].timestamp = now,
                            !.updatedAt = now]
         IN  /\ currentSession' = updated
             /\ sessions' = ReplaceById(sessions, updated)
             /\ Enqueue(Request("put", updated.id, updated, "none"))
             /\ now' = now + 1

\* updateLastMessage(content): sets currentSession, sessions, dbQueue, now.
updateLastMessage(content) ==
    IF currentSession = NoSession \/ currentSession.messages = <<>>
    THEN UNCHANGED <<currentSession, sessions, dbQueue, now>>
    ELSE LET n == Len(currentSession.messages)
             updated == [currentSession EXCEPT
                            !.messages[n].content = @ \o content,
                            !.updatedAt = now]
         IN  /\ currentSession' = updated
             /\ sessions' = ReplaceById(sessions, updated)
             /\ Enqueue(Request("put", updated.id, updated, "none"))
             /\ now' = now + 1

\* ---------------------------------------------------------------- commands
loadSessions ==
    /\ Command
    /\ isLoading' = TRUE
    /\ Enqueue(Request("getAll", 0, NoSession, "load"))
    /\ UNCHANGED <<sessions, currentSession, selectedAgent, isSending,
                   connectionMode, wsConnection, channels, db, calls,
                   nextSid, nextMid, origin, dispatch, events>>
    /\ UNCHANGED <<now, authVars, lastSelect, agents, listing, idle>>

createSession(agent) ==
    /\ Command
    /\ nextSid <= MaxSessions
    /\ nextSid' = nextSid + 1
    /\ Enqueue(Request("put", nextSid, NewSession(nextSid, agent), "create1"))
    /\ now' = now + 1
    /\ UNCHANGED <<storeVars, channels, db, calls, nextMid, origin, dispatch,
                   events>>
    /\ UNCHANGED <<authVars, lastSelect, agents, listing, idle>>

\* The store reads of selectSession not yet returned, in the order issued.
Selecting(queue) == SelectSeq(queue, LAMBDA r : r.k = "select")

selectSession(id) ==
    /\ Command
    /\ Enqueue(Request("get", id, NoSession, "select"))
    /\ lastSelect' = [id |-> id, overlapped |-> Selecting(dbQueue) # <<>>]
    /\ UNCHANGED <<storeVars, channels, db, calls, nextSid, nextMid, origin,
                   dispatch, events>>
    /\ UNCHANGED <<now, authVars, agents, listing, idle>>

deleteSessionById(id) ==
    /\ Command
    /\ Enqueue(Request("del", id, NoSession, "delete1"))
    /\ UNCHANGED <<storeVars, channels, db, calls, nextSid, nextMid, origin,
                   dispatch, events>>
    /\ UNCHANGED <<now, authVars, lastSelect, agents, listing, idle>>

setSelectedAgent(agent) ==
    /\ Command
    /\ agent # selectedAgent
    /\ selectedAgent' = agent
    /\ UNCHANGED <<sessions, currentSession, isLoading, isSending,
                   connectionMode, wsConnection, channels, db, dbQueue, calls,
                   nextSid, nextMid, origin, dispatch, events>>
    /\ UNCHANGED <<now, authVars, lastSelect, agents, listing, idle>>

setConnectionMode(mode) ==
    /\ Command
    /\ mode # connectionMode
    /\ connectionMode' = mode
    /\ RunEffect(mode, currentSession)
    /\ UNCHANGED <<sessions, currentSession, selectedAgent, isLoading,
                   isSending, db, dbQueue, calls, nextSid, nextMid, origin,
                   dispatch, events>>
    /\ UNCHANGED <<now, authVars, lastSelect, agents, listing, idle>>

\* sendMessage that sets sending before it looks for the selected session.
sendMessageFlagFirst(content) ==
    /\ Command
    /\ UNCHANGED <<authVars, lastSelect, agents, listing>>
    /\ IF currentSession = NoSession
       THEN /\ idle' = "sendMessage"
            /\ isSending' = TRUE
            /\ UNCHANGED <<sessions, currentSession, dbQueue, calls, nextMid,
                           origin, dispatch, now>>
       ELSE /\ UNCHANGED <<authVars, lastSelect, agents, listing, idle>>
            /\ addMessage(Message(nextMid, "user", content, NoAgent))
            /\ IF connectionMode = "websocket" /\ wsConnection # 0
               THEN \* send() throws on a CONNECTING socket and line 143 is
                    \* not reached; on a CLOSING or CLOSED one it discards.
                    /\ isSending' = (channels[wsConnection].state = "connecting")
                    /\ dispatch' = [dispatch EXCEPT ![nextMid] =
                          CASE channels[wsConnection].state = "open" -> "ws"
                            [] channels[wsConnection].state = "connecting" -> "throw"
                            [] OTHER -> "lost"]
                    /\ UNCHANGED calls
               ELSE /\ isSending' = TRUE
                    /\ dispatch' = [dispatch EXCEPT ![nextMid] = "rest"]
                    /\ calls' = calls \cup
                          {[uid |-> nextMid, sid |-> currentSession.id,
                            message |-> content, agent |-> selectedAgent]}
    /\ UNCHANGED <<selectedAgent, isLoading, connectionMode, wsConnection,
                   channels, db, nextSid, events>>

\* sendMessage that also starts a Request Mode call after a channel send.
sendMessageBoth(content) ==
    /\ Command
    /\ UNCHANGED <<authVars, lastSelect, agents, listing>>
    /\ IF currentSession = NoSession
       THEN /\ idle' = "sendMessage"
            /\ UNCHANGED <<sessions, currentSession, isSending, dbQueue, calls, now,
                           nextMid, origin, dispatch>>
       ELSE /\ UNCHANGED <<authVars, lastSelect, agents, listing, idle>>
            /\ addMessage(Message(nextMid, "user", content, NoAgent))
            /\ IF connectionMode = "websocket" /\ wsConnection # 0
               THEN \* send() throws on a CONNECTING socket and line 143 is
                    \* not reached; on a CLOSING or CLOSED one it discards.
                    /\ isSending' = (channels[wsConnection].state = "connecting")
                    /\ dispatch' = [dispatch EXCEPT ![nextMid] =
                          CASE channels[wsConnection].state = "open" -> "ws"
                            [] channels[wsConnection].state = "connecting" -> "throw"
                            [] OTHER -> "lost"]
                    /\ calls' = calls \cup
                          {[uid |-> nextMid, sid |-> currentSession.id,
                            message |-> content, agent |-> selectedAgent]}
               ELSE /\ isSending' = TRUE
                    /\ dispatch' = [dispatch EXCEPT ![nextMid] = "rest"]
                    /\ calls' = calls \cup
                          {[uid |-> nextMid, sid |-> currentSession.id,
                            message |-> content, agent |-> selectedAgent]}
    /\ UNCHANGED <<selectedAgent, isLoading, connectionMode, wsConnection,
                   channels, db, nextSid, events>>

\* sendMessage that chooses the transport by the mode alone: in Stream Mode
\* with no handle the message goes nowhere.
sendMessageByMode(content) ==
    /\ Command
    /\ UNCHANGED <<authVars, lastSelect, agents, listing>>
    /\ IF currentSession = NoSession
       THEN /\ idle' = "sendMessage"
            /\ UNCHANGED <<sessions, currentSession, isSending, dbQueue, calls, now,
                           nextMid, origin, dispatch>>
       ELSE /\ UNCHANGED idle
            /\ addMessage(Message(nextMid, "user", content, NoAgent))
            /\ IF connectionMode = "websocket"
               THEN /\ isSending' = (wsConnection # 0 /\
                                     channels[wsConnection].state = "connecting")
                    /\ dispatch' = [dispatch EXCEPT ![nextMid] =
                          CASE wsConnection = 0 -> "lost"
                            [] channels[wsConnection].state = "open" -> "ws"
                            [] channels[wsConnection].state = "connecting" -> "throw"
                            [] OTHER -> "lost"]
                    /\ UNCHANGED calls
               ELSE /\ isSending' = TRUE
                    /\ dispatch' = [dispatch EXCEPT ![nextMid] = "rest"]
                    /\ calls' = calls \cup
                          {[uid |-> nextMid, sid |-> currentSession.id,
                            message |-> content, agent |-> selectedAgent]}
    /\ UNCHANGED <<selectedAgent, isLoading, connectionMode, wsConnection,
                   channels, db, nextSid, events>>

\* sendMessage(content) up to its first await (or to its end in Stream Mode).
sendMessage(content) ==
    /\ Command
    /\ UNCHANGED <<authVars, lastSelect, agents, listing>>
    /\ IF currentSession = NoSession
       THEN /\ idle' = "sendMessage"
            /\ UNCHANGED <<sessions, currentSession, isSending, dbQueue, calls, now,
                           nextMid, origin, dispatch>>
       ELSE /\ UNCHANGED <<authVars, lastSelect, agents, listing, idle>>
            /\ addMessage(Message(nextMid, "user", content, NoAgent))
            /\ IF connectionMode = "websocket" /\ wsConnection # 0
               THEN \* send() throws on a CONNECTING socket and line 143 is
                    \* not reached; on a CLOSING or CLOSED one it discards.
                    /\ isSending' = (channels[wsConnection].state = "connecting")
                    /\ dispatch' = [dispatch EXCEPT ![nextMid] =
                          CASE channels[wsConnection].state = "open" -> "ws"
                            [] channels[wsConnection].state = "connecting" -> "throw"
                            [] OTHER -> "lost"]
                    /\ UNCHANGED calls
               ELSE /\ isSending' = TRUE
                    /\ dispatch' = [dispatch EXCEPT ![nextMid] = "rest"]
                    /\ calls' = calls \cup
                          {[uid |-> nextMid, sid |-> currentSession.id,
                            message |-> content, agent |-> selectedAgent]}
    /\ UNCHANGED <<selectedAgent, isLoading, connectionMode, wsConnection,
                   channels, db, nextSid, events>>

\* connectWebSocket() and disconnectWebSocket() called on their own.
connect ==
    /\ Command
    /\ LET e == connectWebSocket(currentSession, wsConnection, channels)
       IN  wsConnection' = e.h /\ channels' = e.ch
    /\ UNCHANGED <<sessions, currentSession, selectedAgent, isLoading,
                   isSending, connectionMode, db, dbQueue, calls, nextSid,
                   nextMid, origin, dispatch, events>>
    /\ UNCHANGED <<now, authVars, lastSelect, agents, listing, idle>>

disconnect ==
    /\ Command
    /\ UNCHANGED <<now, authVars, lastSelect, agents, listing>>
    /\ idle' = IF wsConnection = 0 THEN "disconnectWebSocket" ELSE idle
    /\ LET e == disconnectWebSocket(wsConnection, channels)
       IN  wsConnection' = e.h /\ channels' = e.ch
    /\ UNCHANGED <<sessions, currentSession, selectedAgent, isLoading,
                   isSending, connectionMode, db, dbQueue, calls, nextSid,
                   nextMid, origin, dispatch, events>>

\* ---------------------------------------------------------------- store tasks
\* The request at the head of the queue is served and the command that
\* awaits it continues.
Serving(k) == dbQueue # <<>> /\ Head(dbQueue).k = k

\* saveSession(updated) of addMessage and updateLastMessage: nobody awaits it.
StoreWrite ==
    /\ Serving("none")
    /\ db' = saveSession(db, Head(dbQueue).rec)
    /\ dbQueue' = Tail(dbQueue)
    /\ UNCHANGED <<storeVars, channels, calls, nextSid, nextMid, origin,
                   dispatch, ops, events>>
    /\ UNCHANGED <<now, authVars, lastSelect, agents, listing, idle>>

\* createSession after await saveSession(session).
createSessionSaved ==
    /\ Serving("create1")
    /\ db' = saveSession(db, Head(dbQueue).rec)
    /\ dbQueue' = Append(Tail(dbQueue),
                         Request("getAll", 0, Head(dbQueue).rec, "create2"))
    /\ UNCHANGED <<storeVars, channels, calls, nextSid, nextMid, origin,
                   dispatch, ops, events>>
    /\ UNCHANGED <<now, authVars, lastSelect, agents, listing, idle>>

\* createSession after await getAllSessions().
createSessionDone ==
    /\ Serving("create2")
    /\ dbQueue' = Tail(dbQueue)
    /\ sessions' = getAllSessions(db)
    /\ currentSession' = Head(dbQueue).rec
    /\ RunEffect(connectionMode, Head(dbQueue).rec)
    /\ UNCHANGED <<selectedAgent, isLoading, isSending, connectionMode, db,
                   calls, nextSid, nextMid, origin, dispatch, ops, events>>
    /\ UNCHANGED <<now, authVars, lastSelect, agents, listing, idle>>

\* selectSessionDone that leaves the selected agent as it was.
selectSessionDoneKeepAgent ==
    /\ Serving("select")
    /\ UNCHANGED <<now, authVars, lastSelect, agents, listing>>
    /\ dbQueue' = Tail(dbQueue)
    /\ LET session == getSession(db, Head(dbQueue).id)
       IN  IF session # NoSession
           THEN /\ currentSession' = session
                /\ RunEffect(connectionMode, session)
                /\ UNCHANGED <<selectedAgent, idle>>
           ELSE /\ idle' = "selectSession"
                /\ UNCHANGED <<currentSession, selectedAgent, wsConnection,
                               channels>>
    /\ UNCHANGED <<sessions, isLoading, isSending, connectionMode, db, calls,
                   nextSid, nextMid, origin, dispatch, ops, events>>

\* selectSessionDone with the reads returning in the opposite order: the
\* read issued last is the first to return.
selectSessionDoneNewestFirst ==
    /\ Serving("select")
    /\ LET pending == {i \in DOMAIN dbQueue : dbQueue[i].k = "select"}
           n == CHOOSE i \in pending : \A j \in pending : j <= i
           session == getSession(db, dbQueue[n].id)
       IN  /\ dbQueue' = SubSeq(dbQueue, 1, n - 1)
                            \o SubSeq(dbQueue, n + 1, Len(dbQueue))
           /\ IF session # NoSession
              THEN /\ currentSession' = session
                   /\ selectedAgent' = session.agent
                   /\ RunEffect(connectionMode, session)
                   /\ UNCHANGED idle
              ELSE /\ idle' = "selectSession"
                   /\ UNCHANGED <<currentSession, selectedAgent, wsConnection,
                                  channels>>
    /\ UNCHANGED <<sessions, isLoading, isSending, connectionMode, db, calls,
                   nextSid, nextMid, origin, dispatch, ops, events>>
    /\ UNCHANGED <<now, authVars, lastSelect, agents, listing>>

\* selectSession after await getSession(id).
selectSessionDone ==
    /\ Serving("select")
    /\ UNCHANGED <<now, authVars, lastSelect, agents, listing>>
    /\ dbQueue' = Tail(dbQueue)
    /\ LET session == getSession(db, Head(dbQueue).id)
       IN  IF session # NoSession
           THEN /\ currentSession' = session
                /\ selectedAgent' = session.agent
                /\ RunEffect(connectionMode, session)
                /\ UNCHANGED <<now, authVars, lastSelect, agents, listing, idle>>
           ELSE /\ idle' = "selectSession"
                /\ UNCHANGED <<currentSession, selectedAgent, wsConnection,
                               channels>>
    /\ UNCHANGED <<sessions, isLoading, isSending, connectionMode, db, calls,
                   nextSid, nextMid, origin, dispatch, ops, events>>

\* deleteSessionById after await deleteSession(id).
deleteSessionDeleted ==
    /\ Serving("delete1")
    /\ db' = deleteSession(db, Head(dbQueue).id)
    /\ dbQueue' = Append(Tail(dbQueue),
                         Request("getAll", Head(dbQueue).id, NoSession, "delete2"))
    /\ UNCHANGED <<storeVars, channels, calls, nextSid, nextMid, origin,
                   dispatch, ops, events>>
    /\ UNCHANGED <<now, authVars, lastSelect, agents, listing, idle>>

\* deleteSessionById after await getAllSessions().
deleteSessionDone ==
    /\ Serving("delete2")
    /\ dbQueue' = Tail(dbQueue)
    /\ sessions' = getAllSessions(db)
    /\ LET cur == IF currentSession.id = Head(dbQueue).id
                  THEN NoSession ELSE currentSession
       IN  currentSession' = cur /\ RunEffect(connectionMode, cur)
    /\ UNCHANGED <<selectedAgent, isLoading, isSending, connectionMode, db,
                   calls, nextSid, nextMid, origin, dispatch, ops, events>>
    /\ UNCHANGED <<now, authVars, lastSelect, agents, listing, idle>>

\* loadSessionsDone that keeps the list it had.
loadSessionsDoneKeepsList ==
    /\ Serving("load")
    /\ dbQueue' = Tail(dbQueue)
    /\ isLoading' = FALSE
    /\ UNCHANGED <<sessions, currentSession, selectedAgent, isSending,
                   connectionMode, wsConnection, channels, db, calls, nextSid,
                   nextMid, origin, dispatch, ops, events>>
    /\ UNCHANGED <<now, authVars, lastSelect, agents, listing, idle>>

\* loadSessions after await getAllSessions().
loadSessionsDone ==
    /\ Serving("load")
    /\ dbQueue' = Tail(dbQueue)
    /\ sessions' = getAllSessions(db)
    /\ isLoading' = FALSE
    /\ UNCHANGED <<currentSession, selectedAgent, isSending, connectionMode,
                   wsConnection, channels, db, calls, nextSid, nextMid,
                   origin, dispatch, ops, events>>
    /\ UNCHANGED <<now, authVars, lastSelect, agents, listing, idle>>

\* StoreFail that also clears the selection when a createSession write fails.
StoreFailDeselects ==
    /\ dbQueue # <<>>
    /\ events > 0
    /\ events' = events - 1
    /\ dbQueue' = Tail(dbQueue)
    /\ isLoading' = IF Head(dbQueue).k = "load" THEN FALSE ELSE isLoading
    /\ LET cur == IF Head(dbQueue).k = "create1"
                  THEN NoSession ELSE currentSession
       IN  currentSession' = cur /\ RunEffect(connectionMode, cur)
    /\ UNCHANGED <<sessions, selectedAgent, isSending, connectionMode, db,
                   calls, nextSid, nextMid, origin, dispatch, ops>>
    /\ UNCHANGED <<now, authVars, lastSelect, agents, listing, idle>>

\* The request at the head fails: loadSessions catches it, the other
\* commands reject, an unawaited write is lost.
StoreFail ==
    /\ dbQueue # <<>>
    /\ events > 0
    /\ events' = events - 1
    /\ dbQueue' = Tail(dbQueue)
    /\ isLoading' = IF Head(dbQueue).k = "load" THEN FALSE ELSE isLoading
    /\ UNCHANGED <<sessions, currentSession, selectedAgent, isSending,
                   connectionMode, wsConnection, channels, db, calls, nextSid,
                   nextMid, origin, dispatch, ops>>
    /\ UNCHANGED <<now, authVars, lastSelect, agents, listing, idle>>

\* ---------------------------------------------------------------- Request Mode
\* sendMessageResolved that records the agent of the request, not of the reply.
sendMessageResolvedOwnAgent(call, message, agent) ==
    /\ call \in calls
    /\ calls' = calls \ {call}
    /\ addMessage(Message(nextMid, "assistant", message, call.agent))
    /\ isSending' = FALSE
    /\ UNCHANGED <<selectedAgent, isLoading, connectionMode, wsConnection,
                   channels, db, nextSid, dispatch, ops, events>>
    /\ UNCHANGED <<authVars, lastSelect, agents, listing, idle>>

\* sendMessage after await api.chat(...) resolved with {message, agent}.
sendMessageResolved(call, message, agent) ==
    /\ call \in calls
    /\ calls' = calls \ {call}
    /\ addMessage(Message(nextMid, "assistant", message, agent))
    /\ isSending' = FALSE
    /\ UNCHANGED <<selectedAgent, isLoading, connectionMode, wsConnection,
                   channels, db, nextSid, dispatch, ops, events>>
    /\ UNCHANGED <<authVars, lastSelect, agents, listing, idle>>

\* ErrorContent without the fallback for an absent detail.
ErrorContentNoFallback(detail) == ErrorPrefix \o detail

\* `Error: ${error.detail || 'Failed to send message'}`
ErrorContent(detail) ==
    ErrorPrefix \o (IF detail = <<>> THEN FallbackText ELSE detail)

\* sendMessage after await api.chat(...) rejected with {detail}.
sendMessageRejected(call, detail) ==
    /\ call \in calls
    /\ calls' = calls \ {call}
    /\ addMessage(Message(nextMid, "assistant", ErrorContent(detail), NoAgent))
    /\ isSending' = FALSE
    /\ UNCHANGED <<selectedAgent, isLoading, connectionMode, wsConnection,
                   channels, db, nextSid, dispatch, ops, events>>
    /\ UNCHANGED <<authVars, lastSelect, agents, listing, idle>>

\* ---------------------------------------------------------------- catalog
\* loadAgents up to await api.listAgents().
loadAgents ==
    /\ Command
    /\ listing' = listing + 1
    /\ UNCHANGED <<storeVars, agents, channels, db, dbQueue, calls, nextSid,
                   nextMid, origin, dispatch, events, idle>>
    /\ UNCHANGED <<now, authVars, lastSelect>>

\* loadAgents after await api.listAgents() resolved with list.
loadAgentsResolved(list) ==
    /\ listing > 0
    /\ listing' = listing - 1
    /\ agents' = list
    /\ selectedAgent' = IF Len(list) > 0 THEN list[1] ELSE NoAgent
    /\ UNCHANGED <<sessions, currentSession, isLoading, isSending,
                   connectionMode, wsConnection, channels, db, dbQueue, calls,
                   nextSid, nextMid, origin, dispatch, ops, events, idle>>
    /\ UNCHANGED <<now, authVars, lastSelect>>

\* loadAgents after await api.listAgents() rejected: logged only.
loadAgentsRejected ==
    /\ listing > 0
    /\ listing' = listing - 1
    /\ events > 0
    /\ events' = events - 1
    /\ UNCHANGED <<storeVars, agents, channels, db, dbQueue, calls, nextSid,
                   nextMid, origin, dispatch, ops, idle>>
    /\ UNCHANGED <<now, authVars, lastSelect>>

\* ---------------------------------------------------------------- Stream Mode
Frames ==
    [type : {"chunk"}, content : Fragments, error : {<<>>}]
    \cup [type : {"complete"}, content : {<<>>}, error : {<<>>}]
    \cup [type : {"error"}, content : {<<>>}, error : Details]

\* ws.onopen
onopen(c) ==
    /\ channels[c].state = "connecting"
    /\ channels' = [channels EXCEPT ![c].state = "open"]
    /\ UNCHANGED <<storeVars, db, dbQueue, calls, nextSid, nextMid, origin,
                   dispatch, ops, events>>
    /\ UNCHANGED <<now, authVars, lastSelect, agents, listing, idle>>

\* ws.onmessage that stores the text of a complete frame as a message.
onmessageCompleteAppends(c, data) ==
    /\ channels[c].state = "open"
    /\ events > 0
    /\ events' = events - 1
    /\ CASE data.type = "chunk" ->
              /\ updateLastMessage(data.content)
              /\ UNCHANGED <<isSending, origin, nextMid>>
         [] data.type = "complete" ->
              /\ isSending' = FALSE
              /\ addMessage(Message(nextMid, "assistant", data.content, NoAgent))
         [] data.type = "error" /\ data.error # <<>> ->
              /\ addMessage(Message(nextMid, "assistant",
                                    ErrorPrefix \o data.error, NoAgent))
              /\ isSending' = FALSE
         [] OTHER ->
              UNCHANGED <<isSending, currentSession, sessions, dbQueue,
                          origin, nextMid, now>>
    /\ UNCHANGED <<selectedAgent, isLoading, connectionMode, wsConnection,
                   channels, db, calls, nextSid, dispatch, ops>>
    /\ UNCHANGED <<authVars, lastSelect, agents, listing, idle>>

\* ws.onmessage
onmessage(c, data) ==
    /\ channels[c].state = "open"
    /\ events > 0
    /\ events' = events - 1
    /\ CASE data.type = "chunk" ->
              /\ updateLastMessage(data.content)
              /\ UNCHANGED <<isSending, origin, nextMid>>
         [] data.type = "complete" ->
              /\ isSending' = FALSE
              /\ UNCHANGED <<currentSession, sessions, dbQueue, origin, nextMid,
                              now>>
         [] data.type = "error" /\ data.error # <<>> ->
              /\ addMessage(Message(nextMid, "assistant",
                                    ErrorPrefix \o data.error, NoAgent))
              /\ isSending' = FALSE
         [] OTHER ->
              UNCHANGED <<isSending, currentSession, sessions, dbQueue,
                          origin, nextMid, now>>
    /\ UNCHANGED <<selectedAgent, isLoading, connectionMode, wsConnection,
                   channels, db, calls, nextSid, dispatch, ops>>
    /\ UNCHANGED <<authVars, lastSelect, agents, listing, idle>>

\* ws.onerror: the connection failed, or was closed before it was established;
\* the close event follows.
onerror(c) ==
    /\ \/ channels[c].state = "aborting" /\ UNCHANGED events
       \/ /\ channels[c].state \in {"connecting", "open"}
          /\ events > 0
          /\ events' = events - 1
    /\ channels' = [channels EXCEPT ![c].state = "closing"]
    /\ isSending' = FALSE
    /\ UNCHANGED <<sessions, currentSession, selectedAgent, isLoading,
                   connectionMode, wsConnection, db, dbQueue, calls, nextSid,
                   nextMid, origin, dispatch, ops>>
    /\ UNCHANGED <<now, authVars, lastSelect, agents, listing, idle>>

\* ws.onclose: after close(), after a failure, or when the server closes.
onclose(c) ==
    /\ \/ channels[c].state = "closing" /\ UNCHANGED events
       \/ /\ channels[c].state = "open"
          /\ events > 0
          /\ events' = events - 1
    /\ channels' = [channels EXCEPT ![c] = [sid |-> 0, state |-> "closed"]]
    /\ wsConnection' = 0
    /\ UNCHANGED <<sessions, currentSession, selectedAgent, isLoading,
                   isSending, connectionMode, db, dbQueue, calls, nextSid,
                   nextMid, origin, dispatch, ops>>
    /\ UNCHANGED <<now, authVars, lastSelect, agents, listing, idle>>

\* ---------------------------------------------------------------- auth store
AuthCall(k, tok) == [k |-> k, token |-> tok, old |-> FALSE]

\* login up to await api.login(...).
login ==
    /\ Command
    /\ authIsLoading' = TRUE
    /\ error' = NoError
    /\ authCalls' = authCalls \cup {AuthCall("login", NoToken)}
    /\ UNCHANGED <<user, token, isAuthenticated, accessToken, loggedOut>>
    /\ UNCHANGED <<sessionVars, events>>

\* login after api.login resolved with access_token t, up to await api.getMe().
loginToken(call, t) ==
    /\ call.k = "login"
    /\ accessToken' = t
    /\ token' = t
    /\ authCalls' = (authCalls \ {call}) \cup {[call EXCEPT !.k = "getMe"]}
    /\ loggedOut' = (loggedOut /\ call.old)
    /\ UNCHANGED <<user, isAuthenticated, authIsLoading, error>>
    /\ UNCHANGED <<sessionVars, ops, events>>

\* login after api.getMe() resolved with user u.
loginDone(call, u) ==
    /\ call.k = "getMe"
    /\ user' = u
    /\ isAuthenticated' = TRUE
    /\ authIsLoading' = FALSE
    /\ authCalls' = authCalls \ {call}
    /\ UNCHANGED <<token, error, accessToken, loggedOut>>
    /\ UNCHANGED <<sessionVars, ops, events>>

\* login after api.login or api.getMe rejected: the catch block.
loginFailed(call, detail) ==
    /\ call.k \in {"login", "getMe"}
    /\ events > 0
    /\ events' = events - 1
    /\ error' = IF detail # "" THEN detail ELSE LoginFailedText
    /\ authIsLoading' = FALSE
    /\ authCalls' = authCalls \ {call}
    /\ UNCHANGED <<user, token, isAuthenticated, accessToken, loggedOut>>
    /\ UNCHANGED <<sessionVars, ops>>

\* logout up to await api.logout().
logout ==
    /\ Command
    /\ authCalls' = authCalls \cup {AuthCall("logout", NoToken)}
    /\ UNCHANGED <<user, token, isAuthenticated, authIsLoading, error,
                   accessToken, loggedOut>>
    /\ UNCHANGED <<sessionVars, events>>

\* logout after api.logout() settled, resolved or rejected alike; the requests
\* still in flight were started before this logout completed.
logoutDone(call) ==
    /\ call.k \in {"logout", "refreshLogout"}
    /\ accessToken' = NoToken
    /\ user' = NoUser
    /\ token' = NoToken
    /\ isAuthenticated' = FALSE
    /\ error' = NoError
    /\ authCalls' = {[c EXCEPT !.old = TRUE] : c \in authCalls \ {call}}
    /\ loggedOut' = TRUE
    /\ UNCHANGED authIsLoading
    /\ UNCHANGED <<sessionVars, ops, events>>

\* refreshToken up to await api.refreshToken().
refreshToken ==
    /\ Command
    /\ authCalls' = authCalls \cup {AuthCall("refresh", NoToken)}
    /\ UNCHANGED <<user, token, isAuthenticated, authIsLoading, error,
                   accessToken, loggedOut>>
    /\ UNCHANGED <<sessionVars, events>>

\* refreshToken after api.refreshToken() resolved with access_token t.
refreshTokenDone(call, t) ==
    /\ call.k = "refresh"
    /\ accessToken' = t
    /\ token' = t
    /\ authCalls' = authCalls \ {call}
    /\ UNCHANGED <<user, isAuthenticated, authIsLoading, error, loggedOut>>
    /\ UNCHANGED <<sessionVars, ops, events>>

\* refreshToken after api.refreshToken() rejected: await get().logout().
refreshTokenFailed(call) ==
    /\ call.k = "refresh"
    /\ events > 0
    /\ events' = events - 1
    /\ authCalls' = (authCalls \ {call}) \cup {[call EXCEPT !.k = "refreshLogout"]}
    /\ UNCHANGED <<user, token, isAuthenticated, authIsLoading, error,
                   accessToken, loggedOut>>
    /\ UNCHANGED <<sessionVars, ops>>

\* loadUser up to await api.getMe(), or to its return when no token is stored.
loadUser ==
    /\ Command
    /\ IF accessToken = NoToken
       THEN /\ authIsLoading' = FALSE
            /\ isAuthenticated' = FALSE
            /\ UNCHANGED authCalls
       ELSE /\ authCalls' = authCalls \cup {AuthCall("loadUser", accessToken)}
            /\ UNCHANGED <<authIsLoading, isAuthenticated>>
    /\ UNCHANGED <<user, token, error, accessToken, loggedOut>>
    /\ UNCHANGED <<sessionVars, events>>

\* loadUser after api.getMe() resolved with user u.
loadUserDone(call, u) ==
    /\ call.k = "loadUser"
    /\ user' = u
    /\ isAuthenticated' = TRUE
    /\ authIsLoading' = FALSE
    /\ token' = call.token
    /\ authCalls' = authCalls \ {call}
    /\ UNCHANGED <<error, accessToken, loggedOut>>
    /\ UNCHANGED <<sessionVars, ops, events>>

\* loadUser after api.getMe() rejected.
loadUserFailed(call) ==
    /\ call.k = "loadUser"
    /\ events > 0
    /\ events' = events - 1
    /\ accessToken' = NoToken
    /\ user' = NoUser
    /\ token' = NoToken
    /\ isAuthenticated' = FALSE
    /\ authIsLoading' = FALSE
    /\ authCalls' = authCalls \ {call}
    /\ UNCHANGED <<error, loggedOut>>
    /\ UNCHANGED <<sessionVars, ops>>

clearError ==
    /\ Command
    /\ error # NoError
    /\ error' = NoError
    /\ UNCHANGED <<user, token, isAuthenticated, authIsLoading, accessToken,
                   authCalls, loggedOut>>
    /\ UNCHANGED <<sessionVars, events>>

\* ---------------------------------------------------------------- behaviours
Next ==
    \/ loadSessions
    \/ loadAgents
    \/ \E list \in Catalogs : loadAgentsResolved(list)
    \/ loadAgentsRejected
    \/ \E agent \in Agents : createSession(agent)
    \/ \E id \in 1..(nextSid - 1) : selectSession(id)
    \/ \E id \in 1..(nextSid - 1) : deleteSessionById(id)
    \/ \E agent \in Agents : setSelectedAgent(agent)
    \/ \E mode \in {"rest", "websocket"} : setConnectionMode(mode)
    \/ \E content \in Contents : sendMessage(content)
    \/ connect
    \/ disconnect
    \/ StoreWrite
    \/ createSessionSaved
    \/ createSessionDone
    \/ selectSessionDone
    \/ deleteSessionDeleted
    \/ deleteSessionDone
    \/ loadSessionsDone
    \/ StoreFail
    \/ \E call \in calls, message \in Replies, agent \in ReplyAgents :
          sendMessageResolved(call, message, agent)
    \/ \E call \in calls, detail \in Details : sendMessageRejected(call, detail)
    \/ \E c \in ChanIds : onopen(c)
    \/ \E c \in ChanIds, data \in Frames : onmessage(c, data)
    \/ \E c \in ChanIds : onerror(c)
    \/ \E c \in ChanIds : onclose(c)

Spec == Init /\ [][Next]_vars

\* A chat in progress: two sessions created and listed, the first selected,
\* in Request Mode or in Stream Mode with its channel being established.
InitChat ==
    /\ now = 1
    /\ db = [i \in SessionIds |->
               CASE i = 1 -> NewSession(1, "a1")
                 [] i = 2 -> NewSession(2, "a2")
                 [] OTHER -> NoSession]
    /\ sessions = <<NewSession(1, "a1"), NewSession(2, "a2")>>
    /\ currentSession = NewSession(1, "a1")
    /\ agents = <<"a1", "a2">>
    /\ selectedAgent = "a1"
    /\ isLoading = FALSE
    /\ isSending = FALSE
    /\ \E mode \in {"rest", "websocket"} :
          /\ connectionMode = mode
          /\ wsConnection = IF mode = "websocket" THEN 1 ELSE 0
          /\ channels = [c \in ChanIds |->
                           IF mode = "websocket" /\ c = 1
                           THEN [sid |-> 1, state |-> "connecting"]
                           ELSE [sid |-> 0, state |-> "closed"]]
    /\ dbQueue = <<>>
    /\ calls = {}
    /\ listing = 0
    /\ nextSid = 3
    /\ nextMid = 1
    /\ origin = [m \in 1..MaxMsgs |-> 0]
    /\ dispatch = [m \in 1..MaxMsgs |-> "none"]
    /\ ops = ChatOps
    /\ events = MaxEvents
    /\ idle = "none"
    /\ lastSelect = NoSelect
    /\ AuthStart(NoToken)

\* Sending and receiving on the selected session.
NextSend ==
    \/ \E content \in Contents : sendMessage(content)
    \/ StoreWrite
    \/ StoreFail
    \/ \E call \in calls, message \in Replies, agent \in ReplyAgents :
          sendMessageResolved(call, message, agent)
    \/ \E call \in calls, detail \in Details : sendMessageRejected(call, detail)
    \/ \E c \in ChanIds : onopen(c)
    \/ \E c \in ChanIds, data \in Frames : onmessage(c, data)
    \/ \E c \in ChanIds : onerror(c)
    \/ \E c \in ChanIds : onclose(c)

SpecSend == InitChat /\ [][NextSend]_vars

\* The same, with the user switching between the sessions.
NextChat ==
    \/ NextSend
    \/ \E id \in 1..(nextSid - 1) : selectSession(id)
    \/ selectSessionDone

SpecChat == InitChat /\ [][NextChat]_vars

\* The channel on its own: connecting, disconnecting, switching the mode.
NextChannel ==
    \/ connect
    \/ disconnect
    \/ \E mode \in {"rest", "websocket"} : setConnectionMode(mode)
    \/ \E c \in ChanIds : onopen(c)
    \/ \E c \in ChanIds : onerror(c)
    \/ \E c \in ChanIds : onclose(c)

SpecChannel == InitChat /\ [][NextChannel]_vars

\* Creating sessions and sending, the inputs including the empty agent
\* identifier and the empty content.
NextInput ==
    \/ \E agent \in Agents \cup {NoAgent} : createSession(agent)
    \/ createSessionSaved
    \/ createSessionDone
    \/ \E content \in Contents \cup {<<>>} : sendMessage(content)
    \/ StoreWrite
    \/ \E call \in calls, message \in Replies, agent \in ReplyAgents :
          sendMessageResolved(call, message, agent)
    \/ \E call \in calls, detail \in Details : sendMessageRejected(call, detail)
    \/ \E c \in ChanIds : onopen(c)
    \/ \E c \in ChanIds : onerror(c)
    \/ \E c \in ChanIds : onclose(c)

SpecInput == InitChat /\ [][NextInput]_vars

\* Selecting and deleting sessions while sending in them.
NextManage ==
    \/ \E id \in 1..(nextSid - 1) : selectSession(id)
    \/ selectSessionDone
    \/ \E id \in 1..(nextSid - 1) : deleteSessionById(id)
    \/ deleteSessionDeleted
    \/ deleteSessionDone
    \/ \E content \in Contents : sendMessage(content)
    \/ StoreWrite
    \/ StoreFail
    \/ \E call \in calls, message \in Replies, agent \in ReplyAgents :
          sendMessageResolved(call, message, agent)
    \/ \E c \in ChanIds : onopen(c)
    \/ \E c \in ChanIds : onerror(c)
    \/ \E c \in ChanIds : onclose(c)

SpecManage == InitChat /\ [][NextManage]_vars

\* Choosing agents and sessions while sending.
NextAgent ==
    \/ \E agent \in Agents : setSelectedAgent(agent)
    \/ loadAgents
    \/ \E list \in Catalogs : loadAgentsResolved(list)
    \/ \E id \in 1..(nextSid - 1) : selectSession(id)
    \/ selectSessionDone
    \/ \E content \in Contents : sendMessage(content)
    \/ StoreWrite
    \/ \E call \in calls, message \in Replies, agent \in ReplyAgents :
          sendMessageResolved(call, message, agent)
    \/ \E c \in ChanIds : onopen(c)
    \/ \E c \in ChanIds, data \in Frames : onmessage(c, data)

SpecAgent == InitChat /\ [][NextAgent]_vars

\* Creating and loading sessions while sending, with a store that may fail.
NextList ==
    \/ \E agent \in Agents : createSession(agent)
    \/ createSessionSaved
    \/ createSessionDone
    \/ loadSessions
    \/ loadSessionsDone
    \/ \E content \in Contents : sendMessage(content)
    \/ StoreWrite
    \/ StoreFail
    \/ \E call \in calls, message \in Replies, agent \in ReplyAgents :
          sendMessageResolved(call, message, agent)
    \/ \E c \in ChanIds : onopen(c)
    \/ \E c \in ChanIds : onerror(c)
    \/ \E c \in ChanIds : onclose(c)

SpecList == InitChat /\ [][NextList]_vars

\* The auth store on its own, created with or without a stored token.
InitAuth ==
    /\ now = 1
    /\ sessions = <<>>
    /\ currentSession = NoSession
    /\ agents = <<>>
    /\ selectedAgent = NoAgent
    /\ isLoading = FALSE
    /\ isSending = FALSE
    /\ connectionMode = "rest"
    /\ wsConnection = 0
    /\ channels = [c \in ChanIds |-> [sid |-> 0, state |-> "closed"]]
    /\ db = [i \in SessionIds |-> NoSession]
    /\ dbQueue = <<>>
    /\ calls = {}
    /\ listing = 0
    /\ nextSid = 1
    /\ nextMid = 1
    /\ origin = [m \in 1..MaxMsgs |-> 0]
    /\ dispatch = [m \in 1..MaxMsgs |-> "none"]
    /\ ops = MaxOps
    /\ events = MaxEvents
    /\ idle = "none"
    /\ lastSelect = NoSelect
    /\ \E stored \in Tokens \cup {NoToken} : AuthStart(stored)

NextAuth ==
    \/ login
    \/ \E call \in authCalls, t \in Tokens : loginToken(call, t)
    \/ \E call \in authCalls, u \in Users : loginDone(call, u)
    \/ \E call \in authCalls, detail \in AuthDetails : loginFailed(call, detail)
    \/ logout
    \/ \E call \in authCalls : logoutDone(call)
    \/ refreshToken
    \/ \E call \in authCalls, t \in Tokens : refreshTokenDone(call, t)
    \/ \E call \in authCalls : refreshTokenFailed(call)
    \/ loadUser
    \/ \E call \in authCalls, u \in Users : loadUserDone(call, u)
    \/ \E call \in authCalls : loadUserFailed(call)
    \/ clearError

SpecAuth == InitAuth /\ [][NextAuth]_vars

\* Switching the mode and the session, with a transport that does not fail:
\* a channel being established opens, a channel being closed delivers its
\* events, and every store read is served.
Established == \E c \in ChanIds : onopen(c)

Aborted == \E c \in ChanIds : onerror(c) /\ channels[c].state = "aborting"

Closed == \E c \in ChanIds : onclose(c) /\ channels[c].state = "closing"

NextSwitch ==
    \/ \E mode \in {"rest", "websocket"} : setConnectionMode(mode)
    \/ \E id \in 1..(nextSid - 1) : selectSession(id)
    \/ selectSessionDone
    \/ Established
    \/ Aborted
    \/ Closed

SpecSwitch ==
    /\ InitChat
    /\ [][NextSwitch]_vars
    /\ WF_vars(selectSessionDone)
    /\ WF_vars(Established)
    /\ WF_vars(Aborted)
    /\ WF_vars(Closed)

\* ================================================================ claims
LiveChans == {c \in ChanIds : channels[c].state \in {"connecting", "open"}}

\* C1: at most one Stream Mode channel is open or opening, and it was created
\* for the id of the currently selected session.
C1_ModeExclusivity ==
    /\ Cardinality(LiveChans) <= 1
    /\ \A c \in LiveChans :
          currentSession # NoSession /\ channels[c].sid = currentSession.id

\* C2: in Stream Mode the fragments of a turn are assembled in one assistant
\* message that follows the user message, whose content stays what the user
\* sent; a complete frame ends the turn with sending false.
C2_StreamAssembly ==
    [][\A c \in ChanIds, data \in Frames :
          (onmessage(c, data) /\ currentSession # NoSession
                              /\ currentSession.messages # <<>>) =>
             LET old == currentSession.messages
                 new == currentSession'.messages
                 n == Len(old)
             IN  CASE data.type = "chunk" /\ dispatch[old[n].id] = "ws" ->
                        /\ Len(new) = n + 1
                        /\ SubSeq(new, 1, n) = old
                        /\ new[n + 1].role = "assistant"
                        /\ new[n + 1].content = data.content
                   [] data.type = "chunk" /\ old[n].role = "assistant" ->
                        new = [old EXCEPT ![n].content = @ \o data.content]
                   [] data.type = "complete" -> new = old /\ ~isSending'
                   [] OTHER -> TRUE]_vars

\* C3: a sendMessage issued while a send for the selected session is pending
\* (sending is true) appends no message and dispatches nothing to either
\* transport.
C3_SecondSendRejected ==
    [][\A content \in Contents :
          (/\ sendMessage(content)
           /\ isSending
           /\ \E call \in calls : call.sid = currentSession.id) =>
             UNCHANGED <<sessions, currentSession, dbQueue, calls, dispatch>>]_vars

\* Every copy of a session record the program holds.
Records ==
    {db[i] : i \in SessionIds}
    \cup {sessions[i] : i \in DOMAIN sessions}
    \cup {dbQueue[i].rec : i \in DOMAIN dbQueue}
    \cup {currentSession}

\* C4: a message appended while session A is selected appears in no record of
\* another session, in memory or in the Durable Store.
C4_SessionIsolation ==
    \A r \in Records : \A i \in DOMAIN r.messages :
        origin[r.messages[i].id] = r.id

\* C4 witness: a reply that arrived after the user switched from session 1,
\* where the question was asked, to session 2, both persisted.
C4_Witness ==
    /\ db[1].messages # <<>>
    /\ db[2].messages # <<>>
    /\ db[2].messages[1].role = "assistant"
    /\ dispatch[db[1].messages[1].id] = "rest"

IsPrefix(s, t) == Len(s) <= Len(t) /\ SubSeq(t, 1, Len(s)) = s

\* new extends old: earlier messages are kept as they are, the final message
\* of old may have grown in content, and messages may have been appended.
Extends(old, new) ==
    /\ Len(old) <= Len(new)
    /\ \A i \in 1..Len(old) :
          IF i < Len(old)
          THEN new[i] = old[i]
          ELSE /\ [new[i] EXCEPT !.content = old[i].content] = old[i]
               /\ IsPrefix(old[i].content, new[i].content)

InList(list, id) ==
    IF \E i \in DOMAIN list : list[i].id = id
    THEN (CHOOSE r \in {list[i] : i \in DOMAIN list} : r.id = id).messages
    ELSE <<>>

\* C5: sendMessage and frame handling only extend a session's messages, in
\* the current session, in the list and in the Durable Store.
C5_AppendOnly ==
    [][/\ currentSession'.id = currentSession.id =>
             Extends(currentSession.messages, currentSession'.messages)
       /\ \A id \in SessionIds :
             /\ Extends(db[id].messages, db'[id].messages)
             /\ Extends(InList(sessions, id), InList(sessions', id))]_vars

\* C5 witness: a message whose content grew while it was last, and a message
\* appended after it.
C5_Witness ==
    /\ Len(currentSession.messages) >= 2
    /\ currentSession.messages[1].role = "user"
    /\ currentSession.messages[1].content \notin Contents
    /\ \E u \in Contents : IsPrefix(u, currentSession.messages[1].content)
    /\ db[currentSession.id] = currentSession

\* No command is between its call and its return.
NoCommandRunning ==
    /\ calls = {}
    /\ \A i \in DOMAIN dbQueue : dbQueue[i].k = "none"

\* C6: whenever no command is executing, the in-memory list and the current
\* session equal the records stored under the same ids, and the list holds
\* exactly the stored ids.
C6_StoreInSync ==
    NoCommandRunning =>
       /\ \A i \in DOMAIN sessions : sessions[i] = db[sessions[i].id]
       /\ currentSession # NoSession => currentSession = db[currentSession.id]
       /\ {sessions[i].id : i \in DOMAIN sessions}
             = {i \in SessionIds : db[i] # NoSession}

\* C7: a sendMessage that sent over the open channel leaves sending true, and
\* in Stream Mode sending then falls only with a complete or error frame, a
\* channel failure or the settling of a Request Mode call.
C7_SendingUntilComplete ==
    [][/\ \A content \in Contents :
             (/\ sendMessage(content)
              /\ currentSession # NoSession
              /\ connectionMode = "websocket"
              /\ wsConnection # 0
              /\ channels[wsConnection].state = "open") => isSending'
       /\ (connectionMode = "websocket" /\ isSending /\ ~isSending') =>
             \/ \E c \in ChanIds, data \in Frames :
                   onmessage(c, data) /\ data.type \in {"complete", "error"}
             \/ \E c \in ChanIds : onerror(c) \/ onclose(c)
             \/ calls' # calls]_vars

\* C8: switching from Stream Mode to Request Mode leaves no channel open or
\* opening, so no frame is processed after the switch.
C8_SwitchClosesChannel ==
    [][(connectionMode = "websocket" /\ connectionMode' = "rest") =>
          LiveChans' = {}]_vars

\* C9: when deleteSessionById(id) completes, the list it produced does not
\* contain id, and the selection is empty if id was selected.
C9_DeletedStaysDeleted ==
    [][deleteSessionDone =>
          /\ \A i \in DOMAIN sessions' : sessions'[i].id # Head(dbQueue).id
          /\ db[Head(dbQueue).id] = NoSession
          /\ currentSession.id = Head(dbQueue).id => currentSession' = NoSession]_vars

\* The user message of the call is still the last message of the selected
\* session, as it was sent.
Uninterrupted(call) ==
    /\ currentSession.id = call.sid
    /\ currentSession.messages # <<>>
    /\ Last(currentSession.messages).id = call.uid
    /\ Last(currentSession.messages).role = "user"
    /\ Last(currentSession.messages).content = call.message
    /\ Last(currentSession.messages).agent = NoAgent

\* C10: in Request Mode sendMessage(c) appends one user message with content
\* c, and its reply r appends after it one assistant message with content
\* r.message and agent r.agent, leaving sending false.
C10_RequestReply ==
    [][/\ \A content \in Contents :
             (/\ sendMessage(content)
              /\ currentSession # NoSession
              /\ connectionMode = "rest") =>
                /\ Len(currentSession'.messages) = Len(currentSession.messages) + 1
                /\ IsPrefix(currentSession.messages, currentSession'.messages)
                /\ Last(currentSession'.messages).role = "user"
                /\ Last(currentSession'.messages).content = content
                /\ \E call \in calls' \ calls : Uninterrupted(call)'
       /\ \A call \in calls, message \in Replies, agent \in ReplyAgents :
             (/\ sendMessageResolved(call, message, agent)
              /\ connectionMode = "rest"
              /\ Uninterrupted(call)) =>
                LET old == currentSession.messages
                    new == currentSession'.messages
                    n == Len(old)
                IN  /\ Len(new) = n + 1
                    /\ SubSeq(new, 1, n) = old
                    /\ new[n + 1].role = "assistant"
                    /\ new[n + 1].content = message
                    /\ new[n + 1].agent = agent
                    /\ ~isSending']_vars

\* C10 witness: the session of scenario 1 after the reply.
C10_Witness ==
    /\ connectionMode = "rest"
    /\ calls = {}
    /\ ~isSending
    /\ Len(currentSession.messages) = 2
    /\ currentSession.messages[1].role = "user"
    /\ currentSession.messages[1].content \in Contents
    /\ currentSession.messages[2].role = "assistant"
    /\ currentSession.messages[2].content \in Replies
    /\ currentSession.messages[2].agent \in ReplyAgents

\* C11: in Request Mode, when the call of sendMessage(c) rejects with detail d,
\* one assistant message is appended after the user message, its content is
\* "Error: " followed by d, or by the fallback text when d is absent, and
\* sending is false afterwards.
C11_RequestRejected ==
    [][\A call \in calls, detail \in Details :
          (/\ sendMessageRejected(call, detail)
           /\ connectionMode = "rest"
           /\ Uninterrupted(call)) =>
             LET old == currentSession.messages
                 new == currentSession'.messages
                 n == Len(old)
             IN  /\ Len(new) = n + 1
                 /\ SubSeq(new, 1, n) = old
                 /\ new[n + 1].role = "assistant"
                 /\ new[n + 1].content =
                       (IF detail = <<>> THEN <<"E", "F">> ELSE <<"E">> \o detail)
                 /\ ~isSending']_vars

\* C11 witness: a rejection without detail, answered with the fallback text.
C11_Witness ==
    /\ connectionMode = "rest"
    /\ calls = {}
    /\ ~isSending
    /\ Len(currentSession.messages) = 2
    /\ currentSession.messages[1].role = "user"
    /\ currentSession.messages[2].role = "assistant"
    /\ currentSession.messages[2].content = <<"E", "F">>

\* C12: sendMessage never raises to its caller: a send on a channel that is
\* not yet open or already closing and a rejected Request Mode call are
\* absorbed, and sending does not remain true because of them.
C12_SendNeverRaises ==
    [][/\ \A content \in Contents :
             (sendMessage(content) /\ currentSession # NoSession) =>
                /\ dispatch'[nextMid] # "throw"
                /\ dispatch'[nextMid] = "lost" => ~isSending'
       /\ \A call \in calls, detail \in Details :
             sendMessageRejected(call, detail) => ~isSending']_vars

\* C13: after a failure of the Stream Mode channel (the close event of a
\* channel that was open, or an error event) sending is false, and after the
\* close event the handle is cleared and the channel is closed; no channel is
\* opened by the failure.
C13_ChannelFailure ==
    [][\A c \in ChanIds :
          /\ (onclose(c) /\ channels[c].state = "open" /\ wsConnection = c) =>
                /\ ~isSending'
                /\ wsConnection' = 0
                /\ channels'[c].state = "closed"
                /\ LiveChans' \subseteq LiveChans
          /\ (onerror(c) /\ wsConnection = c) =>
                /\ ~isSending'
                /\ LiveChans' \subseteq LiveChans]_vars

\* C14: every inbound frame of type error received while a session is
\* selected appends one assistant message with error content to the current
\* session and clears sending; chunk and complete frames append no message.
C14_ErrorFrame ==
    [][\A c \in ChanIds, data \in Frames :
          (onmessage(c, data) /\ currentSession # NoSession) =>
             LET old == currentSession.messages
                 new == currentSession'.messages
                 n == Len(old)
             IN  IF data.type = "error"
                 THEN /\ Len(new) = n + 1
                      /\ SubSeq(new, 1, n) = old
                      /\ new[n + 1].role = "assistant"
                      /\ IsPrefix(ErrorPrefix, new[n + 1].content)
                      /\ ~isSending'
                 ELSE Len(new) = n]_vars

\* C15: disconnectWebSocket called with the handle already cleared changes
\* nothing, and a second call right after a first one changes nothing more.
C15_DisconnectIdempotent ==
    [][disconnect =>
          /\ wsConnection = 0 =>
                UNCHANGED <<storeVars, channels, db, dbQueue, calls>>
          /\ disconnectWebSocket(wsConnection', channels')
                = [h |-> wsConnection', ch |-> channels']]_vars

\* C15 witness: disconnectWebSocket was called with no handle while a channel
\* the handle no longer names was still live.
C15_Witness ==
    /\ idle = "disconnectWebSocket"
    /\ wsConnection = 0
    /\ LiveChans # {}

\* C16: connectWebSocket closes every existing channel before it creates a
\* new one, and creates one, for the id of the selected session, only when a
\* session is selected.
C16_ConnectClosesFirst ==
    [][connect =>
          /\ \A c \in LiveChans : channels'[c].state \in {"closing", "aborting"}
          /\ IF currentSession # NoSession
             THEN /\ wsConnection' \in ChanIds
                  /\ LiveChans' = {wsConnection'}
                  /\ channels'[wsConnection'].sid = currentSession.id
             ELSE LiveChans' = {}]_vars

\* C17: a successful loadAgents selects the first returned agent only if no
\* agent is selected; an agent already selected stays selected.
C17_LoadAgentsKeepsSelection ==
    [][\A list \in Catalogs :
          loadAgentsResolved(list) =>
             /\ agents' = list
             /\ selectedAgent' =
                   (IF selectedAgent # NoAgent THEN selectedAgent
                    ELSE IF list # <<>> THEN Head(list) ELSE NoAgent)]_vars

\* C18: createSession with an empty agent identifier and sendMessage with
\* empty content are rejected before any side effect: nothing is written to
\* the Durable Store, no message is appended, no transport call is started,
\* and the list, the selection and sending stay as they are.
C18_InvalidInputRejected ==
    [][/\ createSession(NoAgent) =>
             UNCHANGED <<sessions, currentSession, isSending, db, dbQueue, calls>>
       /\ sendMessage(<<>>) =>
             UNCHANGED <<sessions, currentSession, isSending, db, dbQueue, calls,
                         dispatch>>]_vars

\* C19: when the store read of selectSession(id) returns, the stored record
\* of id, if there is one, becomes the current session and its agent the
\* selected agent; if there is none, no state variable changes.
C19_SelectSession ==
    [][selectSessionDone =>
          LET id == Head(dbQueue).id
          IN  IF db[id] # NoSession
              THEN /\ currentSession' = db[id]
                   /\ selectedAgent' = db[id].agent
              ELSE UNCHANGED <<storeVars, agents, channels, db, calls>>]_vars

\* C19 witness: a session was selected that the store no longer holds, while
\* another one was current.
C19_Witness ==
    /\ idle = "selectSession"
    /\ currentSession # NoSession
    /\ \E id \in 1..(nextSid - 1) : db[id] = NoSession

\* C20: sendMessage with no session selected does nothing: no message is
\* appended, nothing is written to the Durable Store, nothing is dispatched
\* on either transport and sending is unchanged.
C20_SendWithoutSession ==
    [][\A content \in Contents :
          (sendMessage(content) /\ currentSession = NoSession) =>
             UNCHANGED <<storeVars, agents, channels, db, dbQueue, calls,
                         dispatch, nextMid>>]_vars

\* C20 witness: sendMessage was called after the selected session was
\* deleted.
C20_Witness ==
    /\ idle = "sendMessage"
    /\ currentSession = NoSession
    /\ db[1] = NoSession

\* C21: while a Request Mode call is in flight, sending is true.
C21_SendingWhileInFlight == calls # {} => isSending

\* C22: a sendMessage call dispatches the user's message once: it starts one
\* Request Mode call or makes one send on the channel, never both, and no
\* other step dispatches it again.
C22_DispatchOnce ==
    [][/\ \A content \in Contents :
             (sendMessage(content) /\ currentSession # NoSession) =>
                \/ /\ dispatch'[nextMid] = "rest"
                   /\ \E call \in calls' \ calls :
                         /\ calls' = calls \cup {call}
                         /\ call.uid = nextMid
                         /\ call.message = content
                \/ /\ dispatch'[nextMid] \in {"ws", "throw", "lost"}
                   /\ calls' = calls
       /\ \A m \in 1..MaxMsgs :
             (dispatch[m] # "none" \/ m # nextMid) => dispatch'[m] = dispatch[m]
       /\ (\A content \in Contents : ~sendMessage(content)) =>
             calls' \subseteq calls /\ dispatch' = dispatch]_vars

\* C22 witness: one message went out on the open channel and, after the
\* channel had closed, another one as a Request Mode call.
C22_Witness ==
    /\ \E m \in 1..MaxMsgs : dispatch[m] = "ws"
    /\ \E call \in calls : calls = {call} /\ dispatch[call.uid] = "rest"

\* The agents that the records of session id in record set rs name.
AgentsOf(rs, id) == {r.agent : r \in {x \in rs : x.id = id}}

\* C23: the id and the bound agent of a session never change: every record
\* is filed under its own id, all copies of a session name one agent, and no
\* step changes the agent a session is bound to.
C23_IdAndAgentFixed ==
    [][LET old == Records
           new == Records'
       IN  /\ \A i \in 1..(nextSid - 1) : db'[i] # NoSession => db'[i].id = i
           /\ \A id \in 1..(nextSid - 1) :
                 LET a == AgentsOf(old, id)
                     b == AgentsOf(new, id)
                 IN  /\ Cardinality(b) <= 1
                     /\ (a # {} /\ b # {}) => b = a]_vars

\* C23 witness: a message was sent in a session with another agent selected
\* than the one the session is bound to, and the session was stored again.
C23_Witness ==
    /\ \E call \in calls :
          call.sid = currentSession.id /\ call.agent # currentSession.agent
    /\ currentSession.messages # <<>>
    /\ db[currentSession.id] = currentSession

\* C24: the content of a message changes only if it is an assistant message,
\* the last one of its session, and a chunk frame is being handled; the
\* content of a user message never changes.
C24_ContentStable ==
    [][\A i \in DOMAIN currentSession.messages :
          LET old == currentSession.messages
              new == currentSession'.messages
          IN  (/\ currentSession'.id = currentSession.id
               /\ i \in DOMAIN new
               /\ new[i].id = old[i].id
               /\ new[i].content # old[i].content) =>
                 /\ old[i].role = "assistant"
                 /\ i = Len(old)
                 /\ \E c \in ChanIds, data \in Frames :
                       onmessage(c, data) /\ data.type = "chunk"]_vars

\* C25: the close event of a channel that was superseded never clears the
\* handle of a newer channel, and no channel is open or opening without
\* being the one the handle refers to.
C25_HandleTracksChannel ==
    [][/\ \A c \in ChanIds :
             (onclose(c) /\ wsConnection # c) => wsConnection' = wsConnection
       /\ LiveChans' \subseteq {wsConnection'}]_vars

\* Record r holds the message with id m.
Holds(r, m) == \E i \in DOMAIN r.messages : r.messages[i].id = m

\* C26: the assistant message produced by a Request Mode call, reply or
\* error, is appended to the session whose id was sent in the call's
\* request, whatever session is selected when the call settles, and to no
\* other session.
C26_ReplyToOwnSession ==
    [][\A call \in calls :
          (\/ \E message \in Replies, agent \in ReplyAgents :
                 sendMessageResolved(call, message, agent)
           \/ \E detail \in Details : sendMessageRejected(call, detail)) =>
             /\ \E r \in Records' : r.id = call.sid /\ Holds(r, nextMid)
             /\ \A r \in Records' : Holds(r, nextMid) => r.id = call.sid]_vars

\* C27: in Stream Mode sendMessage calls send on the channel in the handle
\* only when that channel is open.
C27_SendOnlyWhenOpen ==
    [][\A content \in Contents :
          (/\ sendMessage(content)
           /\ currentSession # NoSession
           /\ connectionMode = "websocket"
           /\ wsConnection # 0
           /\ channels[wsConnection].state # "open") =>
             dispatch'[nextMid] \in {"none", "rest"}]_vars

\* C28: once the commands have stopped with a session selected, in Stream
\* Mode the channel of the selected session ends up open and referenced by
\* the handle, and in Request Mode every channel ends up closed and the
\* handle cleared.
C28_ModeSwitchTakesEffect ==
    /\ <>[](connectionMode = "websocket" /\ currentSession # NoSession) =>
          <>[](/\ wsConnection # 0
               /\ channels[wsConnection].state = "open"
               /\ channels[wsConnection].sid = currentSession.id)
    /\ <>[](connectionMode = "rest") =>
          <>[](wsConnection = 0 /\ \A c \in ChanIds : channels[c].state = "closed")

\* C29: while a session is selected, the entry of the in-memory list with
\* the same id has the same messages as the current session.
C29_ListMatchesCurrent ==
    currentSession # NoSession =>
       \A i \in DOMAIN sessions :
          sessions[i].id = currentSession.id =>
             sessions[i].messages = currentSession.messages

\* C30: in Stream Mode with no channel handle held, sendMessage delivers the
\* message through one Request Mode call for the selected session.
C30_FallbackToRequest ==
    [][\A content \in Contents :
          (/\ sendMessage(content)
           /\ currentSession # NoSession
           /\ connectionMode = "websocket"
           /\ wsConnection = 0) =>
             /\ calls' \ calls =
                   {[uid |-> nextMid, sid |-> currentSession.id,
                     message |-> content, agent |-> selectedAgent]}
             /\ calls \subseteq calls'
             /\ Last(currentSession'.messages).id = nextMid
             /\ Last(currentSession'.messages).content = content
             /\ isSending']_vars

\* C30 witness: in Stream Mode, after the channel failed and closed, a
\* message is on its way as a Request Mode call.
C30_Witness ==
    /\ connectionMode = "websocket"
    /\ wsConnection = 0
    /\ LiveChans = {}
    /\ \E call \in calls :
          /\ call.sid = currentSession.id
          /\ Last(currentSession.messages).id = call.uid

\* C31: a complete frame only clears sending: the messages of every session,
\* the selection, the list, the mode and the handle stay as they are.
C31_CompleteOnlyClearsSending ==
    [][\A c \in ChanIds, data \in Frames :
          (onmessage(c, data) /\ data.type = "complete") =>
             /\ ~isSending'
             /\ UNCHANGED <<sessions, currentSession, agents, selectedAgent,
                            isLoading, connectionMode, wsConnection, channels,
                            db, dbQueue, calls>>]_vars

\* C31 witness: sending was left true by a send on the connecting channel
\* and, with the channel open and the session as the send left it, one
\* frame later it is false.
C31_Witness ==
    /\ ~isSending
    /\ events = MaxEvents - 1
    /\ wsConnection # 0
    /\ channels[wsConnection].state = "open"
    /\ Len(currentSession.messages) = 1
    /\ currentSession.messages[1].content \in Contents
    /\ dispatch[currentSession.messages[1].id] = "throw"

C34_CreateSession ==
    [][/\ \A agent \in Agents :
            createSession(agent) =>
               /\ Last(dbQueue').op = "put"
               /\ Last(dbQueue').rec.id \notin {db[i].id : i \in SessionIds}
               /\ Last(dbQueue').rec.agent = agent
               /\ Last(dbQueue').rec.messages = <<>>
               /\ UNCHANGED <<sessions, currentSession>>
       /\ createSessionSaved => db'[Head(dbQueue).rec.id] = Head(dbQueue).rec
       /\ createSessionDone =>
            /\ currentSession' = Head(dbQueue).rec
            /\ db[currentSession'.id] = currentSession'
            /\ \E i \in DOMAIN sessions' : sessions'[i] = currentSession'
       /\ (StoreFail /\ Head(dbQueue).k = "create1") =>
            UNCHANGED <<sessions, currentSession, db>>]_vars

\* A session was created for agent "a2" and is stored, listed and selected,
\* with no messages.
C34_Witness ==
    /\ nextSid = 4
    /\ dbQueue = <<>>
    /\ currentSession.id = 3
    /\ currentSession.agent = "a2"
    /\ currentSession.messages = <<>>
    /\ db[3] = currentSession
    /\ \E i \in DOMAIN sessions : sessions[i] = currentSession

\* C35: when the store read of loadSessions fails, the session list and the
\* selection stay as they were and the loading flag returns to false (set in
\* the catch block, which does not rethrow); when it succeeds, the list becomes
\* exactly what the store returned.
C35_LoadSessions ==
    [][/\ loadSessions => isLoading' /\ UNCHANGED <<sessions, currentSession>>
       /\ (StoreFail /\ Head(dbQueue).k = "load") =>
            /\ ~isLoading'
            /\ UNCHANGED <<sessions, currentSession, selectedAgent, db>>
       /\ loadSessionsDone =>
            /\ sessions' = getAllSessions(db)
            /\ ~isLoading'
            /\ UNCHANGED <<currentSession, selectedAgent, db>>]_vars

\* loadSessions was the only command and its read failed: nothing is being
\* loaded, and the list and the selection are those of the start.
C35_Witness ==
    /\ ops = ChatOps - 1
    /\ nextSid = 3
    /\ nextMid = 1
    /\ events = MaxEvents - 1
    /\ dbQueue = <<>>
    /\ ~isLoading
    /\ sessions = <<NewSession(1, "a1"), NewSession(2, "a2")>>
    /\ currentSession = NewSession(1, "a1")

\* C37: in the auth store, whenever isAuthenticated is true, user and token
\* are both non-null.
C37_AuthenticatedHasUserAndToken ==
    isAuthenticated => user # NoUser /\ token # NoToken

\* C38: once logout has completed, no access token is in the auth store state
\* or in local storage until a login issued afterwards obtains one.
C38_NoTokenAfterLogout ==
    loggedOut => token = NoToken /\ accessToken = NoToken

\* C32: updateLastMessage(fragment), which a chunk frame calls, on a current
\* session with messages changes, among the messages, only the content of the
\* last one, to its previous content followed by the fragment: the number of
\* messages, the earlier messages and the last message's id, role, timestamp
\* and agent stay; with no current session or no messages nothing changes.
C32_UpdateLastMessage ==
    [][\A c \in ChanIds, data \in Frames :
          (onmessage(c, data) /\ data.type = "chunk") =>
             IF currentSession = NoSession \/ currentSession.messages = <<>>
             THEN UNCHANGED <<currentSession, sessions, db, dbQueue>>
             ELSE LET old == currentSession.messages
                      new == currentSession'.messages
                      n == Len(old)
                  IN  /\ Len(new) = n
                      /\ SubSeq(new, 1, n - 1) = SubSeq(old, 1, n - 1)
                      /\ new[n].content = old[n].content \o data.content
                      /\ new[n].id = old[n].id
                      /\ new[n].role = old[n].role
                      /\ new[n].timestamp = old[n].timestamp
                      /\ new[n].agent = old[n].agent
                      /\ currentSession'.id = currentSession.id
                      /\ currentSession'.agent = currentSession.agent
                      /\ currentSession'.createdAt = currentSession.createdAt
                      /\ Last(dbQueue').rec = currentSession']_vars

\* A fragment was appended to the only message of the session, which keeps
\* the timestamp of its creation while the session was updated later.
C32_Witness ==
    /\ Len(currentSession.messages) = 1
    /\ \E content \in Contents, fragment \in Fragments :
          currentSession.messages[1].content = content \o fragment
    /\ currentSession.messages[1].timestamp < currentSession.updatedAt

\* The entry of session id in the list, NoSession when it is not listed.
Entry(list, id) ==
    IF \E i \in DOMAIN list : list[i].id = id
    THEN CHOOSE r \in {list[i] : i \in DOMAIN list} : r.id = id
    ELSE NoSession

\* A step does not move the updatedAt of a copy of a session backwards.
NotBefore(old, new) ==
    (old # NoSession /\ new # NoSession /\ old.id = new.id)
       => old.updatedAt <= new.updatedAt

\* C36: the updatedAt of a session never decreases: not in the stored
\* record, not in the current session, not in its list entry.
C36_UpdatedAtMonotonic ==
    [][/\ NotBefore(currentSession, currentSession')
       /\ \A id \in 1..(nextSid - 1) :
             /\ NotBefore(db[id], db'[id])
             /\ NotBefore(Entry(sessions, id), Entry(sessions', id))]_vars

====
